---- MODULE Spec2Model ----
(***************************************************************************)
(* State-machine model of the source-verify monitor (src/src/monitor.ts):  *)
(* the chain contexts with their latest-block cursor, metadata queue and   *)
(* source queue, the three interval timers, and every callback of the      *)
(* block detector, the metadata fetcher and the source fetcher.  Each      *)
(* action is one run-to-completion step of the JavaScript event loop.      *)
(***************************************************************************)
EXTENDS Integers, Sequences, FiniteSets, Bags, TLC

\* ------------------------------------------------------------------ bounds
MaxHead == 5            \* chain heads returned by the RPC are 0..MaxHead
MaxBlockTicks == 2      \* block ticks whose getBlockNumber is in flight
MaxInflight == 1        \* copies of one identical request in flight
MaxPipelineHead == 2    \* chain heads of the whole-pipeline specification
MaxClockSteps == 1      \* number of wall-clock advances in a behaviour
MaxLen == 4             \* length of the source keys fed to the sanitizer
CatchUpStart == 100     \* startup cursor of the catch-up specification
CatchUpHead == 1000     \* the chain head of the catch-up specification
MaxCatchUpTicks == 227  \* successful block ticks of the catch-up specification

\* ------------------------------------------------------- program constants
CatchUpCap == 4         \* monitor.ts:218
MetadataMaxAge == 3600  \* monitor.ts:319 (seconds)
SourceMaxAge == 432000  \* monitor.ts:405 (3600 * 24 * 5 seconds)
MsPerSec == 1000        \* monitor.ts:183

Undefined == "undefined"
Null == "null"

\* the chain names start() runs with (monitor.ts:102-104): the name of the
\* custom chain, or the five public chains
CustomChain == <<"localhost">>
DefaultChains == <<"mainnet", "ropsten", "rinkeby", "kovan", "goerli">>

Addresses == {"0xA"}

Min(a, b) == IF a < b THEN a ELSE b

\* obj[field] of a JavaScript object: undefined when the key is absent
Get(obj, field) == IF field \in DOMAIN obj THEN obj[field] ELSE Undefined

\* JavaScript truthiness of a string-or-undefined value
Truthy(v) == v # Undefined /\ v # Null /\ v # ""

\* delete obj[key]
Delete(obj, key) == [k \in (DOMAIN obj) \ {key} |-> obj[k]]

\* ------------------------------------------------------------ sanitization
\* characters of the class [a-z0-9_.\/-] under the flags g, i, m
AllowedChars ==
  {"a","b","c","d","e","f","g","h","i","j","k","l","m",
   "n","o","p","q","r","s","t","u","v","w","x","y","z",
   "A","B","C","D","E","F","G","H","I","J","K","L","M",
   "N","O","P","Q","R","S","T","U","V","W","X","Y","Z",
   "0","1","2","3","4","5","6","7","8","9","_",".","/","-"}

\* .replace(/[^a-z0-9_.\/-]/gim, "_"): every character outside the class
ReplaceDisallowed(s) ==
  [i \in 1..Len(s) |-> IF s[i] \in AllowedChars THEN s[i] ELSE "_"]

\* ($|\/) tried at position j: the position after the match, 0 when none
TailEnd(s, j) ==
  IF j = Len(s) + 1 THEN j
  ELSE IF j <= Len(s) /\ s[j] = "/" THEN j + 1
  ELSE 0

\* [.]+($|\/) tried at position d, greedy with backtracking
DotsEnd(s, d) ==
  LET run == {r \in 1..(Len(s) - d + 1) :
                 /\ \A k \in d..(d + r - 1) : s[k] = "."
                 /\ TailEnd(s, d + r) # 0}
  IN IF run = {} THEN 0
     ELSE TailEnd(s, d + (CHOOSE r \in run : \A q \in run : q <= r))

\* (^|\/)[.]+($|\/) tried at start position i: end of the match, 0 when none
MatchEnd(s, i) ==
  LET viaStart == IF i = 1 THEN DotsEnd(s, 1) ELSE 0
      viaSlash == IF i <= Len(s) /\ s[i] = "/" THEN DotsEnd(s, i + 1) ELSE 0
  IN IF viaStart # 0 THEN viaStart ELSE viaSlash

\* .replace(/(^|\/)[.]+($|\/)/, '_'): no g flag, the leftmost match only
ReplaceDotSegment(s) ==
  LET starts == {i \in 1..(Len(s) + 1) : MatchEnd(s, i) # 0}
  IN IF starts = {} THEN s
     ELSE LET i == CHOOSE p \in starts : \A q \in starts : p <= q
          IN SubSeq(s, 1, i - 1) \o <<"_">> \o SubSeq(s, MatchEnd(s, i), Len(s))

\* pathSanitized of sourceFound
Sanitize(key) == ReplaceDotSegment(ReplaceDisallowed(key))

\* ------------------------------------------------------------------- state
VARIABLES
  startPc,           \* position of the async start(): idle, awaiting, done, failed
  chainNames,        \* the chain names of start()
  startIdx,          \* index in chainNames of the chain whose head start() awaits
  blockInterval,     \* this.blockInterval: Null or the timer handle
  metadataInterval,  \* this.metadataInterval
  sourceInterval,    \* this.sourceInterval
  timers,            \* the interval timers the runtime still fires
  stoppedAfterStart, \* stop() has been called after start() was invoked
  now,               \* new Date().getTime(), in ms since construction
  clockSteps,        \* wall-clock advances so far
  chains,            \* this.chains: chain -> [latestBlock, metadataQueue, sourceQueue]
  headReqs,          \* getBlockNumber calls of block ticks in flight (bag of chains)
  blockReqs,         \* getBlock calls in flight (bag of [chain, number])
  codeReqs,          \* getCode calls in flight (bag of [chain, address])
  metadataReqs,      \* metadata gateway fetches in flight
  sourceReqs,        \* source gateway fetches in flight
  files,             \* the repository: path -> content
  last,              \* the step taken last and what it was given
  sourceKey,         \* sanitizer input  (SpecSanitize)
  pathSanitized,     \* sanitizer output (SpecSanitize)
  observed,          \* the histories this behaviour records
  startCursor,       \* history: chain -> the cursor start() recorded
  headTicks,         \* history: chain -> successful getBlockNumber callbacks of ticks
  requested,         \* history: chain -> block numbers passed to getBlock, in call order
  processed          \* history: chain -> block numbers whose transactions were scanned

vars == <<startPc, chainNames, startIdx, blockInterval, metadataInterval, sourceInterval,
          timers, stoppedAfterStart, now, clockSteps, chains, headReqs, blockReqs,
          codeReqs, metadataReqs, sourceReqs, files, last, sourceKey,
          pathSanitized, observed, startCursor, headTicks, requested, processed>>

lifecycleVars == <<startPc, chainNames, startIdx, blockInterval, metadataInterval,
                   sourceInterval, timers, stoppedAfterStart>>
clockVars == <<now, clockSteps>>
blockVars == <<headReqs, blockReqs, codeReqs>>
sanitizeVars == <<sourceKey, pathSanitized>>
historyVars == <<observed, startCursor, headTicks, requested, processed>>

\* given is what the runtime handed to the step; uncaught tells that the
\* step ended in an exception nothing catches or in a promise that rejects
\* with no handler
Step(op) == [op |-> op, address |-> "", key |-> <<>>, doc |-> "",
             num |-> 0, set |-> {}, given |-> <<>>, uncaught |-> FALSE]

\* constructor (monitor.ts:77-90)
InitMonitor ==
  /\ startPc = "idle"
  /\ chainNames = <<>>
  /\ startIdx = 0
  /\ blockInterval = Null
  /\ metadataInterval = Null
  /\ sourceInterval = Null
  /\ timers = {}
  /\ stoppedAfterStart = FALSE
  /\ now = 0
  /\ clockSteps = 0
  /\ chains = <<>>
  /\ headReqs = EmptyBag
  /\ blockReqs = EmptyBag
  /\ codeReqs = EmptyBag
  /\ metadataReqs = EmptyBag
  /\ sourceReqs = EmptyBag
  /\ files = <<>>
  /\ last = Step("constructor")
  /\ startCursor = <<>>
  /\ headTicks = <<>>
  /\ requested = <<>>
  /\ processed = <<>>
  /\ sourceKey = <<>>
  /\ pathSanitized = <<>>

Init ==
  /\ InitMonitor
  /\ observed = {}

\* the same monitor, its behaviour recording the getBlock calls and the
\* blocks scanned
InitBlocks ==
  /\ InitMonitor
  /\ observed = {"requested", "processed"}

\* the same monitor, its behaviour counting the block ticks that read the
\* chain head
InitCatchUp ==
  /\ InitMonitor
  /\ observed = {"headTicks"}

\* a history of a chain begins when start() records the chain's cursor
Begin(history, name, chain, empty) ==
  IF name \in observed THEN (chain :> empty) @@ history ELSE history

\* one request more / less in a bag of requests in flight
Issue(bag, reqs) == bag (+) SetToBag(reqs)
Settle(bag, req) == bag (-) SetToBag({req})
HasRoom(bag, reqs) == \A r \in reqs : CopiesIn(r, bag) < MaxInflight

\* ---------------------------------------------------------------- lifecycle
\* the chain context start() creates (monitor.ts:112-117)
NewChain == [metadataQueue |-> <<>>, sourceQueue |-> <<>>, latestBlock |-> 0]

\* start(): up to the first await of getBlockNumber (monitor.ts:101-119)
Start(names) ==
  /\ startPc = "idle"
  /\ startPc' = "awaiting"
  /\ chainNames' = names
  /\ startIdx' = 1
  /\ chains' = (names[1] :> NewChain) @@ chains
  /\ last' = Step("start")
  /\ UNCHANGED <<blockInterval, metadataInterval, sourceInterval, timers,
                 stoppedAfterStart, clockVars, blockVars, metadataReqs, sourceReqs,
                 files, sanitizeVars, historyVars>>

\* start() resumes with the chain head: records the cursor, then either
\* creates the next chain and awaits again, or arms the three intervals
\* (monitor.ts:119-126)
StartResume(blockNumber) ==
  /\ startPc = "awaiting"
  /\ LET chain == chainNames[startIdx]
         withHead == [chains EXCEPT ![chain].latestBlock = blockNumber]
     IN IF startIdx < Len(chainNames)
        THEN /\ chains' = (chainNames[startIdx + 1] :> NewChain) @@ withHead
             /\ startIdx' = startIdx + 1
             /\ UNCHANGED <<startPc, blockInterval, metadataInterval,
                            sourceInterval, timers>>
        ELSE /\ chains' = withHead
             /\ startPc' = "done"
             /\ blockInterval' = "block"
             /\ metadataInterval' = "metadata"
             /\ sourceInterval' = "source"
             /\ timers' = timers \cup {"block", "metadata", "source"}
             /\ UNCHANGED startIdx
  /\ last' = [Step("startResume") EXCEPT !.num = blockNumber]
  /\ startCursor' = IF observed = {} THEN startCursor
                    ELSE (chainNames[startIdx] :> blockNumber) @@ startCursor
  /\ headTicks' = Begin(headTicks, "headTicks", chainNames[startIdx], 0)
  /\ requested' = Begin(requested, "requested", chainNames[startIdx], <<>>)
  /\ processed' = Begin(processed, "processed", chainNames[startIdx], <<>>)
  /\ UNCHANGED <<chainNames, stoppedAfterStart, clockVars, blockVars, metadataReqs, sourceReqs,
                 files, sanitizeVars, observed>>

\* the awaited getBlockNumber rejects: start() rejects, nothing is armed;
\* run_monitor.js calls start() with neither await nor catch
StartReject ==
  /\ startPc = "awaiting"
  /\ startPc' = "failed"
  /\ last' = [Step("startReject") EXCEPT !.uncaught = TRUE]
  /\ UNCHANGED <<chainNames, startIdx, blockInterval, metadataInterval,
                 sourceInterval, timers, stoppedAfterStart, clockVars, chains, blockVars,
                 metadataReqs, sourceReqs, files, sanitizeVars, historyVars>>

\* clearInterval(handle): a null handle clears nothing
ClearInterval(active, handle) == active \ {handle}

\* stop() (monitor.ts:132-137)
Stop ==
  /\ timers' = ClearInterval(ClearInterval(ClearInterval(timers,
                  blockInterval), metadataInterval), sourceInterval)
  /\ stoppedAfterStart' = (stoppedAfterStart \/ startPc # "idle")
  /\ last' = Step("stop")
  /\ UNCHANGED <<startPc, chainNames, startIdx, blockInterval,
                 metadataInterval, sourceInterval, clockVars, chains, blockVars, metadataReqs,
                 sourceReqs, files, sanitizeVars, historyVars>>

\* wall-clock time passes between two steps of the event loop
ClockDeltas == {MetadataMaxAge * MsPerSec, MetadataMaxAge * MsPerSec + 1,
                SourceMaxAge * MsPerSec, SourceMaxAge * MsPerSec + 1}

Clock(delta) ==
  /\ clockSteps < MaxClockSteps
  /\ now' = now + delta
  /\ clockSteps' = clockSteps + 1
  /\ last' = [Step("clock") EXCEPT !.num = delta]
  /\ UNCHANGED <<lifecycleVars, chains, blockVars, metadataReqs, sourceReqs,
                 files, sanitizeVars, historyVars>>

\* ------------------------------------------------------------ queue (165-190)
addToQueueOverwriting(queue, key, item, t) ==
  (key :> (("timestamp" :> t) @@ item)) @@ queue

\* addToQueue(queue, key, item) at wall time t
addToQueue(queue, key, item, t) ==
  IF key \in DOMAIN queue
  THEN queue
  ELSE (key :> (("timestamp" :> t) @@ item)) @@ queue

cleanupQueueKeeping(queue, maxAgeInSecs, t) == queue

cleanupQueueInclusive(queue, maxAgeInSecs, t) ==
  LET toDelete == {key \in DOMAIN queue :
                     queue[key].timestamp + (maxAgeInSecs * MsPerSec) <= t}
  IN [key \in (DOMAIN queue) \ toDelete |-> queue[key]]

\* cleanupQueue(queue, maxAgeInSecs) at wall time t
cleanupQueue(queue, maxAgeInSecs, t) ==
  LET toDelete == {key \in DOMAIN queue :
                     queue[key].timestamp + (maxAgeInSecs * MsPerSec) < t}
  IN [key \in (DOMAIN queue) \ toDelete |-> queue[key]]

\* ------------------------------------------------------------------- blocks
Heads == 0..MaxHead
PipelineHeads == 0..MaxPipelineHead

\* what getBlockNumber hands to its callback: an error, or a chain head
HeadResults(heads) ==
  {[err |-> TRUE, newBlockNr |-> 0]} \cup
  {[err |-> FALSE, newBlockNr |-> h] : h \in heads}

\* what getBlock hands to its callback: an error or an empty result, or a
\* block; created holds the addresses its contract creations deploy
BlockResults ==
  {[failed |-> TRUE, created |-> {}]} \cup
  {[failed |-> FALSE, created |-> as] : as \in SUBSET Addresses}

\* retrieveBlocks(): one getBlockNumber per chain (monitor.ts:199-215); at
\* most room of them in flight per chain
RetrieveBlocks(room) ==
  /\ "block" \in timers
  /\ \A c \in DOMAIN chains : CopiesIn(c, headReqs) < room
  /\ headReqs' = Issue(headReqs, DOMAIN chains)
  /\ last' = Step("retrieveBlocks")
  /\ UNCHANGED <<lifecycleVars, clockVars, chains, blockReqs, codeReqs,
                 metadataReqs, sourceReqs, files, sanitizeVars, historyVars>>

ClampTargetUncapped(newBlockNr, latestBlock) == newBlockNr

ClampTargetInclusive(newBlockNr, latestBlock) ==
  Min(newBlockNr, latestBlock + CatchUpCap + 1)

\* newBlockNr = Math.min(newBlockNr, latestBlock + 4) (monitor.ts:218)
ClampTarget(newBlockNr, latestBlock) == Min(newBlockNr, latestBlock + CatchUpCap)

BlockRangeInclusive(latestBlock, target) ==
  IF latestBlock < target
  THEN [i \in 1..(target - latestBlock + 1) |-> latestBlock + i - 1]
  ELSE <<>>

\* the block numbers the loop passes to getBlock, in call order
\* (monitor.ts:220-223): from the cursor up to, not including, the target
BlockRange(latestBlock, target) ==
  IF latestBlock < target
  THEN [i \in 1..(target - latestBlock) |-> latestBlock + i - 1]
  ELSE <<>>

GetBlockNumberCallbackSkipping(chain, result) ==
  /\ BagIn(chain, headReqs)
  /\ chain \in DOMAIN headTicks => headTicks[chain] < MaxCatchUpTicks
  /\ headReqs' = Settle(headReqs, chain)
  /\ LET latestBlock == chains[chain].latestBlock
         target == ClampTarget(result.newBlockNr, latestBlock)
         range == BlockRange(latestBlock, target)
     IN /\ IF result.err
           THEN /\ chains' = [chains EXCEPT ![chain].latestBlock = @ + 1]
                /\ UNCHANGED blockReqs
           ELSE IF ~(latestBlock < target)
           THEN UNCHANGED <<chains, blockReqs>>
           ELSE /\ chains' = [chains EXCEPT ![chain].latestBlock = target]
                /\ blockReqs' = Issue(blockReqs,
                      {[chain |-> chain, number |-> range[i]] : i \in DOMAIN range})
        /\ last' = [Step("getBlockNumber") EXCEPT
                      !.doc = IF result.err THEN "err" ELSE "ok",
                      !.num = result.newBlockNr]
        /\ requested' = IF chain \in DOMAIN requested /\ ~result.err
                        THEN [requested EXCEPT ![chain] = @ \o range]
                        ELSE requested
        /\ headTicks' = IF chain \in DOMAIN headTicks /\ ~result.err
                        THEN [headTicks EXCEPT ![chain] = @ + 1]
                        ELSE headTicks
  /\ UNCHANGED <<lifecycleVars, clockVars, codeReqs, metadataReqs, sourceReqs,
                 files, sanitizeVars, observed, startCursor, processed>>

\* the getBlockNumber callback (monitor.ts:215-242): on success the loop
\* requests every block from the cursor up to the target and leaves the
\* cursor at the target
GetBlockNumberCallback(chain, result) ==
  /\ BagIn(chain, headReqs)
  /\ chain \in DOMAIN headTicks => headTicks[chain] < MaxCatchUpTicks
  /\ headReqs' = Settle(headReqs, chain)
  /\ LET latestBlock == chains[chain].latestBlock
         target == ClampTarget(result.newBlockNr, latestBlock)
         range == BlockRange(latestBlock, target)
     IN /\ IF result.err \/ ~(latestBlock < target)
           THEN UNCHANGED <<chains, blockReqs>>
           ELSE /\ chains' = [chains EXCEPT ![chain].latestBlock = target]
                /\ blockReqs' = Issue(blockReqs,
                      {[chain |-> chain, number |-> range[i]] : i \in DOMAIN range})
        /\ last' = [Step("getBlockNumber") EXCEPT
                      !.doc = IF result.err THEN "err" ELSE "ok",
                      !.num = result.newBlockNr]
        /\ requested' = IF chain \in DOMAIN requested /\ ~result.err
                        THEN [requested EXCEPT ![chain] = @ \o range]
                        ELSE requested
        /\ headTicks' = IF chain \in DOMAIN headTicks /\ ~result.err
                        THEN [headTicks EXCEPT ![chain] = @ + 1]
                        ELSE headTicks
  /\ UNCHANGED <<lifecycleVars, clockVars, codeReqs, metadataReqs, sourceReqs,
                 files, sanitizeVars, observed, startCursor, processed>>

GetBlockCallbackRetrying(req, block) ==
  /\ BagIn(req, blockReqs)
  /\ blockReqs' = IF block.failed THEN blockReqs ELSE Settle(blockReqs, req)
  /\ LET calls == IF block.failed THEN {}
                  ELSE {[chain |-> req.chain, address |-> a] : a \in block.created}
     IN /\ HasRoom(codeReqs, calls)
        /\ codeReqs' = Issue(codeReqs, calls)
  /\ last' = [Step("getBlock") EXCEPT
                !.doc = IF block.failed THEN "err" ELSE "ok",
                !.num = req.number]
  /\ processed' = IF req.chain \in DOMAIN processed /\ ~block.failed
                  THEN [processed EXCEPT ![req.chain] = Append(@, req.number)]
                  ELSE processed
  /\ UNCHANGED <<lifecycleVars, clockVars, chains, headReqs, metadataReqs,
                 sourceReqs, files, sanitizeVars, observed, startCursor,
                 headTicks, requested>>

\* the getBlock callback (monitor.ts:223-240): created holds the addresses
\* of the block's contract-creation transactions; every one of them gets a
\* retrieveCode, which issues getCode (monitor.ts:253-257)
GetBlockCallback(req, block) ==
  /\ BagIn(req, blockReqs)
  /\ blockReqs' = Settle(blockReqs, req)
  /\ LET calls == IF block.failed THEN {}
                  ELSE {[chain |-> req.chain, address |-> a] : a \in block.created}
     IN /\ HasRoom(codeReqs, calls)
        /\ codeReqs' = Issue(codeReqs, calls)
  /\ last' = [Step("getBlock") EXCEPT
                !.doc = IF block.failed THEN "err" ELSE "ok",
                !.num = req.number]
  /\ processed' = IF req.chain \in DOMAIN processed /\ ~block.failed
                  THEN [processed EXCEPT ![req.chain] = Append(@, req.number)]
                  ELSE processed
  /\ UNCHANGED <<lifecycleVars, clockVars, chains, headReqs, metadataReqs,
                 sourceReqs, files, sanitizeVars, observed, startCursor,
                 headTicks, requested>>

\* --------------------------------------------------------------- bytecode
\* the byte strings a CBOR footer may carry, with what
\* web3.utils.bytesToHex(..).slice(2) and multihashes.toB58String make of
\* them; toB58String throws on bytes that are no multihash
HexOfBytes == ("bytes11" :> "1111")
B58OfBytes == ("bytes12" :> "QmX")

\* what getCode and cborDecode can hand to the callback: an RPC error, a
\* decoder exception, a falsy value, or a map
CodeResults ==
  {[kind |-> k, map |-> <<>>] : k \in {"err", "throw", "null"}} \cup
  {[kind |-> "map", map |-> m] :
     m \in {<<>>, ("bzzr1" :> "bytes11"), ("ipfs" :> "bytes12"),
            ("ipfs" :> "bytesBad"),
            ("bzzr1" :> "bytes11") @@ ("ipfs" :> "bytes12")}}

FooterItemBoth(result) ==
  IF result.kind # "map" THEN [queued |-> FALSE, item |-> <<>>]
  ELSE IF "bzzr1" \in DOMAIN result.map
  THEN [queued |-> TRUE,
        item |-> [k \in DOMAIN result.map |->
                    IF k = "bzzr1" THEN HexOfBytes[result.map[k]]
                    ELSE B58OfBytes[result.map[k]]]]
  ELSE IF "ipfs" \in DOMAIN result.map /\ result.map["ipfs"] \in DOMAIN B58OfBytes
  THEN [queued |-> TRUE, item |-> ("ipfs" :> B58OfBytes[result.map["ipfs"]])]
  ELSE [queued |-> FALSE, item |-> <<>>]

\* the item retrieveCode queues for a decoded footer (monitor.ts:260-291);
\* queued is FALSE when nothing is queued
FooterItem(result) ==
  IF result.kind # "map" THEN [queued |-> FALSE, item |-> <<>>]
  ELSE IF "bzzr1" \in DOMAIN result.map
  THEN [queued |-> TRUE, item |-> ("bzzr1" :> HexOfBytes[result.map["bzzr1"]])]
  ELSE IF "ipfs" \in DOMAIN result.map /\ result.map["ipfs"] \in DOMAIN B58OfBytes
  THEN [queued |-> TRUE, item |-> ("ipfs" :> B58OfBytes[result.map["ipfs"]])]
  ELSE [queued |-> FALSE, item |-> <<>>]

\* the getCode callback of retrieveCode (monitor.ts:257-292)
GetCodeCallback(req, result) ==
  /\ BagIn(req, codeReqs)
  /\ codeReqs' = Settle(codeReqs, req)
  /\ LET found == FooterItem(result)
         queue == chains[req.chain].metadataQueue
     IN chains' = IF found.queued
                  THEN [chains EXCEPT ![req.chain].metadataQueue =
                          addToQueue(queue, req.address, found.item, now)]
                  ELSE chains
  /\ last' = [Step("getCode") EXCEPT !.address = req.address,
                !.given = result,
                !.doc = IF FooterItem(result).queued
                        THEN CHOOSE v \in DOMAIN FooterItem(result).item : TRUE
                        ELSE "none"]
  /\ UNCHANGED <<lifecycleVars, clockVars, headReqs, blockReqs, metadataReqs,
                 sourceReqs, files, sanitizeVars, historyVars>>

\* ----------------------------------------------------------------- metadata
\* source keys of the manifests, as character sequences, in manifest order
SourceKeyOrder == <<(<<"a">>), (<<"$">>)>>

\* the descriptor the manifests give a source key: the first key has a swarm
\* URL and an IPFS URL, the second one a URL no gateway serves
Descriptor(key) ==
  IF key = SourceKeyOrder[1]
  THEN [keccak256 |-> "0xaa", urls |-> <<"bzz-raw:/22", "dweb:/ipfs/QmSrc">>]
  ELSE [keccak256 |-> "0xbb", urls |-> <<"https://x/B.sol">>]

\* a gateway request that fails: non-2xx, connection failure, timeout
Rejected == "rejected"

\* the documents a gateway may return for a metadata hash
Docs == {"notjson", "null", "{}", "{sources:{}}", "{sources:{a,$}}"}

\* JSON.parse(doc) and the read of .sources: throws on malformed input;
\* null has no properties; sources is undefined when the key is missing
ParseJSON(doc) ==
  LET keys == IF doc = "{sources:{a,$}}"
              THEN {SourceKeyOrder[1], SourceKeyOrder[2]}
              ELSE {}
  IN [throws |-> doc = "notjson",
      isNull |-> doc = "null",
      sources |-> [defined |-> doc \notin {"notjson", "null", "{}"},
                   map |-> [k \in keys |-> Descriptor(k)]]]

\* repository paths (monitor.ts:358, 365, 370, 524)
HashPath(dir, hash) ==
  [dir |-> dir, chain |-> "", address |-> "", hash |-> hash, path |-> <<>>]
MetadataPath(chain, address) ==
  [dir |-> "metadata.json", chain |-> chain, address |-> address, hash |-> "",
   path |-> <<>>]
SourcePath(chain, address, path) ==
  [dir |-> "sources", chain |-> chain, address |-> address, hash |-> "",
   path |-> path]

\* save(path, content): creates or overwrites
save(fs, path, content) == (path :> content) @@ fs

MetadataFetchesSwarmOnly(chain, queue) ==
  {[chain |-> chain, address |-> a,
    bzzr1 |-> Get(queue[a], "bzzr1"), ipfs |-> Get(queue[a], "ipfs")] :
     a \in {x \in DOMAIN queue : Truthy(Get(queue[x], "bzzr1"))}}

\* the fetch retrieveMetadataByStorageProvider starts for a queue entry
\* (monitor.ts:324-329, 352-367); no request leaves when both hashes are falsy
MetadataFetches(chain, queue) ==
  {[chain |-> chain, address |-> a,
    bzzr1 |-> Get(queue[a], "bzzr1"), ipfs |-> Get(queue[a], "ipfs")] :
     a \in {x \in DOMAIN queue :
              Truthy(Get(queue[x], "bzzr1")) \/ Truthy(Get(queue[x], "ipfs"))}}

\* retrieveMetadataInChain for every chain (monitor.ts:304-331): evict the
\* stale entries, then start one fetch per surviving entry
MetadataCleaned ==
  [c \in DOMAIN chains |->
     [chains[c] EXCEPT !.metadataQueue = cleanupQueue(@, MetadataMaxAge, now)]]

RetrieveMetadata ==
  /\ "metadata" \in timers
  /\ LET fetches == UNION {MetadataFetches(c, MetadataCleaned[c].metadataQueue) :
                             c \in DOMAIN chains}
     IN /\ HasRoom(metadataReqs, fetches)
        /\ metadataReqs' = Issue(metadataReqs, fetches)
  /\ chains' = MetadataCleaned
  /\ last' = [Step("retrieveMetadata") EXCEPT
                !.set = UNION {(DOMAIN chains[c].metadataQueue) \
                               (DOMAIN MetadataCleaned[c].metadataQueue) :
                               c \in DOMAIN chains}]
  /\ UNCHANGED <<lifecycleVars, clockVars, blockVars, sourceReqs, files,
                 sanitizeVars, historyVars>>

\* what a successful metadata fetch does after the await: the provider file
\* and metadata.json are saved, the document is parsed, the entry leaves the
\* metadata queue and a source-queue entry is added (monitor.ts:357-378).
\* JSON.parse throws on malformed input and the read of .sources throws on
\* null: the async function then rejects, and its caller left the promise
\* floating (monitor.ts:323-324)
MetadataFound(ctx, fs, req, doc, t) ==
  LET provider == IF Truthy(req.bzzr1) THEN HashPath("swarm/bzzr1", req.bzzr1)
                  ELSE HashPath("ipfs", req.ipfs)
      saved == save(save(fs, provider, doc), MetadataPath(req.chain, req.address), doc)
      parsed == ParseJSON(doc)
      dequeued == [ctx EXCEPT !.metadataQueue = Delete(@, req.address)]
  IN IF parsed.throws THEN [ctx |-> ctx, files |-> saved, rejects |-> TRUE]
     ELSE IF parsed.isNull THEN [ctx |-> dequeued, files |-> saved, rejects |-> TRUE]
     ELSE [ctx |-> [dequeued EXCEPT !.sourceQueue =
                      addToQueue(@, req.address,
                                 [metadataRaw |-> doc, sources |-> parsed.sources], t)],
           files |-> saved, rejects |-> FALSE]

\* a metadata fetch settles: rejected (the catch returns) or resolved with doc
MetadataResponse(req, outcome) ==
  /\ BagIn(req, metadataReqs)
  /\ metadataReqs' = Settle(metadataReqs, req)
  /\ LET done == MetadataFound(chains[req.chain], files, req, outcome, now)
     IN IF outcome # Rejected
        THEN /\ chains' = [chains EXCEPT ![req.chain] = done.ctx]
             /\ files' = done.files
        ELSE UNCHANGED <<chains, files>>
  /\ last' = [Step("metadataResponse") EXCEPT !.address = req.address,
                !.doc = outcome,
                !.uncaught = (outcome # Rejected /\
                   MetadataFound(chains[req.chain], files, req, outcome, now).rejects)]
  /\ UNCHANGED <<lifecycleVars, clockVars, blockVars, sourceReqs, sanitizeVars, historyVars>>

\* ------------------------------------------------------------------ sources
\* url.startsWith(prefix) for the URLs of the manifests
UrlScheme == ("bzz-raw:/22" :> "bzz-raw") @@ ("dweb:/ipfs/QmSrc" :> "dweb") @@
             ("https://x/B.sol" :> "https")
StartsWith(url, prefix) == UrlScheme[url] = prefix

\* the content a gateway may return for a source URL: the file the manifest
\* describes, or something else
Contents == {"genuine", "other"}
\* the content of a file of the keccak256 cache directory
CacheContent == "genuine"
Digests == {"0xaa", "0xbb"}

sourceFoundDroppingEntry(st, chain, address, key, source) ==
  LET written == save(st.files, SourcePath(chain, address, Sanitize(key)), source)
      queue == st.chains[chain].sourceQueue
  IN IF address \notin DOMAIN queue \/ ~queue[address].sources.defined
     THEN [chains |-> st.chains, files |-> written]
     ELSE [chains |-> [st.chains EXCEPT ![chain].sourceQueue = Delete(@, address)],
           files |-> written]

\* sourceFound(chain, address, sourceKey, source) on the state st =
\* [chains, files] (monitor.ts:513-534): the file is saved first; the delete
\* throws a TypeError, which every caller catches, when the address has no
\* source-queue entry or the entry has no sources object
sourceFound(st, chain, address, key, source) ==
  LET written == save(st.files, SourcePath(chain, address, Sanitize(key)), source)
      queue == st.chains[chain].sourceQueue
  IN IF address \notin DOMAIN queue \/ ~queue[address].sources.defined
     THEN [chains |-> st.chains, files |-> written]
     ELSE LET left == Delete(queue[address].sources.map, key)
          IN [chains |->
                IF DOMAIN left = {}
                THEN [st.chains EXCEPT ![chain].sourceQueue = Delete(@, address)]
                ELSE [st.chains EXCEPT ![chain].sourceQueue[address].sources.map = left],
              files |-> written]

\* the gateway fetches retrieveSourceByAddress starts for an entry: for every
\* key and every URL, a swarm GET for a bzz-raw URL and an IPFS cat for a
\* dweb URL (monitor.ts:432-440, 467, 492)
SourceFetches(chain, address, sources) ==
  {[chain |-> chain, address |-> address, sourceKey |-> k,
    url |-> sources.map[k].urls[i]] :
     <<k, i>> \in {p \in (DOMAIN sources.map) \X (1..2) :
                     /\ p[2] <= Len(sources.map[p[1]].urls)
                     /\ \/ StartsWith(sources.map[p[1]].urls[p[2]], "bzz-raw")
                        \/ StartsWith(sources.map[p[1]].urls[p[2]], "dweb")}}

\* the loop of retrieveSourceByAddress over the keys, from the i-th key of
\* the manifest on: a key whose keccak256 cache file can be read is handed
\* to sourceFound (monitor.ts:432-450)
RECURSIVE ReadCache(_, _, _, _, _, _)
ReadCache(st, chain, address, sources, cached, i) ==
  IF i > Len(SourceKeyOrder) THEN st
  ELSE LET key == SourceKeyOrder[i]
           hit == /\ key \in DOMAIN sources.map
                  /\ sources.map[key].keccak256 \in cached
       IN ReadCache(IF hit
                    THEN sourceFound(st, chain, address, key, CacheContent)
                    ELSE st,
                    chain, address, sources, cached, i + 1)

\* retrieveSourceByAddress for every entry of todo (pairs chain, address)
RECURSIVE SourceScan(_, _, _)
SourceScan(st, todo, cached) ==
  IF todo = {} THEN st
  ELSE LET p == CHOOSE x \in todo : TRUE
           sources == st.chains[p[1]].sourceQueue[p[2]].sources
       IN SourceScan(ReadCache(st, p[1], p[2], sources, cached, 1),
                     todo \ {p}, cached)

\* retrieveSourceInChain for every chain (monitor.ts:390-415): evict the
\* stale entries, then retrieveSourceByAddress for every surviving entry;
\* cached holds the digests with a file in the keccak256 directory
SourceCleaned ==
  [c \in DOMAIN chains |->
     [chains[c] EXCEPT !.sourceQueue = cleanupQueue(@, SourceMaxAge, now)]]

RetrieveSource(cached) ==
  /\ "source" \in timers
  /\ LET todo == {p \in (DOMAIN chains) \X Addresses :
                    p[2] \in DOMAIN SourceCleaned[p[1]].sourceQueue}
         fetches == UNION {SourceFetches(p[1], p[2],
                             SourceCleaned[p[1]].sourceQueue[p[2]].sources) :
                             p \in todo}
         done == SourceScan([chains |-> SourceCleaned, files |-> files], todo, cached)
     IN /\ HasRoom(sourceReqs, fetches)
        /\ sourceReqs' = Issue(sourceReqs, fetches)
        /\ chains' = done.chains
        /\ files' = done.files
  /\ last' = [Step("retrieveSource") EXCEPT !.num = Cardinality(cached),
                !.given = cached,
                !.set = UNION {(DOMAIN chains[c].sourceQueue) \
                               (DOMAIN SourceCleaned[c].sourceQueue) :
                               c \in DOMAIN chains}]
  /\ UNCHANGED <<lifecycleVars, clockVars, blockVars, metadataReqs, sanitizeVars, historyVars>>

\* a source fetch settles (monitor.ts:469-474, 494-499): rejected, or
\* resolved with source, which goes to sourceFound
SourceResponse(req, outcome) ==
  /\ BagIn(req, sourceReqs)
  /\ sourceReqs' = Settle(sourceReqs, req)
  /\ LET done == sourceFound([chains |-> chains, files |-> files],
                             req.chain, req.address, req.sourceKey, outcome)
     IN IF outcome # Rejected
        THEN /\ chains' = done.chains
             /\ files' = done.files
        ELSE UNCHANGED <<chains, files>>
  /\ last' = [Step("sourceResponse") EXCEPT !.address = req.address,
                !.key = req.sourceKey,
                !.doc = outcome]
  /\ UNCHANGED <<lifecycleVars, clockVars, blockVars, metadataReqs, sanitizeVars, historyVars>>

\* ------------------------------------------------------------ specification
\* start() on the chains names, with startup heads drawn from heads
Startup(names, heads) ==
  \/ Start(names)
  \/ \E blockNumber \in heads : StartResume(blockNumber)

\* the steps of the block detector, with chain heads drawn from heads and
\* at most room block ticks awaiting the chain head
Blocks(heads, room) ==
  \/ RetrieveBlocks(room)
  \/ \E chain \in DOMAIN chains, result \in HeadResults(heads) :
       GetBlockNumberCallback(chain, result)
  \/ \E req \in DOMAIN blockReqs, block \in BlockResults : GetBlockCallback(req, block)
  \/ \E req \in DOMAIN codeReqs, result \in CodeResults : GetCodeCallback(req, result)

\* the steps of the metadata fetcher and of the source fetcher
Fetchers ==
  \/ RetrieveMetadata
  \/ \E req \in DOMAIN metadataReqs, outcome \in {Rejected} \cup Docs :
       MetadataResponse(req, outcome)
  \/ \E cached \in SUBSET Digests : RetrieveSource(cached)
  \/ \E req \in DOMAIN sourceReqs, outcome \in {Rejected} \cup Contents :
       SourceResponse(req, outcome)

\* the whole pipeline, on a chain whose head stays low
Next ==
  \/ Startup(CustomChain, PipelineHeads)
  \/ \E delta \in ClockDeltas : Clock(delta)
  \/ Blocks(PipelineHeads, MaxInflight)
  \/ Fetchers

Spec == Init /\ [][Next]_vars

\* the whole pipeline with the ticks firing for ever, as setInterval makes
\* them (monitor.ts:124-126; nothing here calls stop), and the wall clock
\* moving on past the longer staleness window
LongWait == SourceMaxAge * MsPerSec + 1

NextLive ==
  \/ Startup(CustomChain, PipelineHeads)
  \/ Clock(LongWait)
  \/ Blocks(PipelineHeads, MaxInflight)
  \/ Fetchers

SpecLive ==
  /\ Init
  /\ [][NextLive]_vars
  /\ WF_vars(Clock(LongWait))
  /\ WF_vars(RetrieveMetadata)
  /\ WF_vars(\E cached \in SUBSET Digests : RetrieveSource(cached))

\* the block detector on its own, with chain heads up to MaxHead
NextBlocks ==
  \/ Startup(CustomChain, Heads)
  \/ Blocks(Heads, MaxBlockTicks)

SpecBlocks == InitBlocks /\ [][NextBlocks]_vars

\* start and stop in every interleaving with the three tickers, on the five
\* public chains
LifecycleHeads == {0, 1}

NextLifecycle ==
  \/ Startup(DefaultChains, LifecycleHeads)
  \/ StartReject
  \/ Stop
  \/ RetrieveBlocks(MaxInflight)
  \/ \E chain \in DOMAIN chains, result \in HeadResults(LifecycleHeads) :
       GetBlockNumberCallback(chain, result)
  \/ RetrieveMetadata
  \/ \E cached \in SUBSET Digests : RetrieveSource(cached)

SpecLifecycle == Init /\ [][NextLifecycle]_vars

\* the block detector catching up with a chain head that stays at
\* CatchUpHead, the block requests left in flight
NextCatchUp ==
  \/ Startup(CustomChain, {CatchUpStart, CatchUpHead})
  \/ RetrieveBlocks(MaxBlockTicks)
  \/ \E chain \in DOMAIN chains, result \in HeadResults({CatchUpHead}) :
       GetBlockNumberCallback(chain, result)

SpecCatchUp == InitCatchUp /\ [][NextCatchUp]_vars

\* the sanitizer of sourceFound on its own: every source key up to MaxLen
\* characters over an alphabet with a letter, the dot, the slash and a
\* character outside the allowed class
Alphabet == {"a", ".", "/", "$"}
SourceKeys == UNION {[1..n -> Alphabet] : n \in 0..MaxLen}

InitSanitize ==
  /\ startPc = "idle"
  /\ chainNames = <<>>
  /\ startIdx = 0
  /\ blockInterval = Null
  /\ metadataInterval = Null
  /\ sourceInterval = Null
  /\ timers = {}
  /\ stoppedAfterStart = FALSE
  /\ now = 0
  /\ clockSteps = 0
  /\ chains = <<>>
  /\ headReqs = EmptyBag
  /\ blockReqs = EmptyBag
  /\ codeReqs = EmptyBag
  /\ metadataReqs = EmptyBag
  /\ sourceReqs = EmptyBag
  /\ files = <<>>
  /\ last = Step("constructor")
  /\ observed = {}
  /\ startCursor = <<>>
  /\ headTicks = <<>>
  /\ requested = <<>>
  /\ processed = <<>>
  /\ sourceKey \in SourceKeys
  /\ pathSanitized = <<>>

SanitizeKey ==
  /\ last.op = "constructor"
  /\ pathSanitized' = Sanitize(sourceKey)
  /\ last' = [Step("sanitize") EXCEPT !.key = sourceKey]
  /\ UNCHANGED <<lifecycleVars, clockVars, chains, blockVars, metadataReqs,
                 sourceReqs, files, sourceKey, historyVars>>

NextSanitize == SanitizeKey

SpecSanitize == InitSanitize /\ [][NextSanitize]_vars

\* ------------------------------------------------------------------ claims
TickOps == {"retrieveBlocks", "retrieveMetadata", "retrieveSource"}

\* C1: every execution of the getBlockNumber callback of the block detector
\* leaves each chain's latest-block cursor at least where it was and at most
\* 4 higher, whatever head the RPC returned.
C1_CursorAdvanceBounded ==
  [][last'.op = "getBlockNumber" =>
       \A c \in DOMAIN chains :
          /\ chains'[c].latestBlock >= chains[c].latestBlock
          /\ chains'[c].latestBlock - chains[c].latestBlock <= 4]_vars

\* a callback was given a head more than 4 above the cursor and left the
\* cursor 4 higher, with the 4 block requests in flight
C1_Witness ==
  /\ last.op = "getBlockNumber"
  /\ last.doc = "ok"
  /\ \E c \in DOMAIN chains :
        /\ last.num > chains[c].latestBlock
        /\ chains[c].latestBlock = 4
        /\ \A n \in 0..3 : BagIn([chain |-> c, number |-> n], blockReqs)

\* C2: no address is a key of both the metadata queue and the source queue
\* of one chain.
C2_QueuesDisjoint ==
  \A c \in DOMAIN chains :
     (DOMAIN chains[c].metadataQueue) \cap (DOMAIN chains[c].sourceQueue) = {}

\* C3: a metadata tick at wall time T removes from the metadata queue exactly
\* the entries with timestamp + 3600 s < T, so none that stays is older than
\* 3600 s; a source tick removes every entry with timestamp + 432000 s < T,
\* and exactly those when no keccak256 cache file completes an entry.
Stale(queue, maxAgeMs) == {a \in DOMAIN queue : queue[a].timestamp + maxAgeMs < now}

C3_EvictionExact ==
  [][/\ last'.op = "retrieveMetadata" =>
          \A c \in DOMAIN chains :
             LET before == chains[c].metadataQueue
                 after == chains'[c].metadataQueue
             IN /\ DOMAIN after = (DOMAIN before) \ Stale(before, 3600000)
                /\ \A a \in DOMAIN after :
                      after[a] = before[a] /\ now - after[a].timestamp <= 3600000
     /\ last'.op = "retrieveSource" =>
          \A c \in DOMAIN chains :
             LET before == chains[c].sourceQueue
                 after == chains'[c].sourceQueue
             IN /\ DOMAIN after \subseteq (DOMAIN before) \ Stale(before, 432000000)
                /\ last'.num = 0 =>
                     DOMAIN after = (DOMAIN before) \ Stale(before, 432000000)
                /\ \A a \in DOMAIN after : now - after[a].timestamp <= 432000000]_vars

\* a metadata tick has just evicted an entry that was 1 ms past the window
C3_Witness ==
  /\ last.op = "retrieveMetadata"
  /\ last.set # {}
  /\ now = 3600001
  /\ \A c \in DOMAIN chains : chains[c].metadataQueue = <<>>

\* C4: a step that adds to a queue leaves every entry the queue already had
\* unchanged, timestamp included, and an entry it inserts carries the
\* current wall-clock time.
FirstWriteWins(before, after) ==
  /\ \A k \in DOMAIN before : k \in DOMAIN after /\ after[k] = before[k]
  /\ \A k \in (DOMAIN after) \ (DOMAIN before) : after[k].timestamp = now

C4_FirstWriteWins ==
  [][/\ last'.op = "getCode" =>
          \A c \in DOMAIN chains :
             /\ FirstWriteWins(chains[c].metadataQueue, chains'[c].metadataQueue)
             /\ last'.doc # "none" => last'.address \in DOMAIN chains'[c].metadataQueue
     /\ last'.op = "metadataResponse" =>
          \A c \in DOMAIN chains :
             FirstWriteWins(chains[c].sourceQueue, chains'[c].sourceQueue)]_vars

\* a getCode callback has just offered an ipfs item for an address that was
\* queued earlier with a bzzr1 hash: the entry kept its hash and timestamp
C4_Witness ==
  /\ last.op = "getCode"
  /\ last.doc = "ipfs"
  /\ \E c \in DOMAIN chains :
        /\ last.address \in DOMAIN chains[c].metadataQueue
        /\ "bzzr1" \in DOMAIN chains[c].metadataQueue[last.address]
        /\ chains[c].metadataQueue[last.address].timestamp < now

\* C5: after a metadata fetch that returned bytes that are no JSON, the
\* metadata file is in the repository, the source queue has gained no entry
\* and the address is no longer in the metadata queue.
C5_ParseErrorDropsEntry ==
  [][last'.op = "metadataResponse" /\ last'.doc = "notjson" =>
       \A c \in DOMAIN chains :
          /\ MetadataPath(c, last'.address) \in DOMAIN files'
          /\ files'[MetadataPath(c, last'.address)] = "notjson"
          /\ DOMAIN chains'[c].sourceQueue = DOMAIN chains[c].sourceQueue
          /\ last'.address \notin DOMAIN chains'[c].metadataQueue]_vars

\* C6: a rejected metadata fetch changes neither queue nor the repository,
\* and every metadata tick starts a fetch, with the entry's own hash, for
\* every entry that is not older than 3600 s, leaving the entry as it was.
C6_TransportErrorRetried ==
  [][/\ last'.op = "metadataResponse" /\ last'.doc = Rejected =>
          chains' = chains /\ files' = files
     /\ last'.op = "retrieveMetadata" =>
          \A c \in DOMAIN chains :
             \A a \in DOMAIN chains[c].metadataQueue :
                LET entry == chains[c].metadataQueue[a]
                    fetch == [chain |-> c, address |-> a,
                              bzzr1 |-> Get(entry, "bzzr1"),
                              ipfs |-> Get(entry, "ipfs")]
                IN now - entry.timestamp <= 3600000 =>
                     /\ a \in DOMAIN chains'[c].metadataQueue
                     /\ chains'[c].metadataQueue[a] = entry
                     /\ CopiesIn(fetch, metadataReqs') = CopiesIn(fetch, metadataReqs) + 1]_vars

\* a fetch has just been rejected for an entry queued earlier, which is
\* still in the metadata queue with the source queue empty
C6_Witness ==
  /\ last.op = "metadataResponse"
  /\ last.doc = Rejected
  /\ \E c \in DOMAIN chains :
        /\ last.address \in DOMAIN chains[c].metadataQueue
        /\ chains[c].metadataQueue[last.address].timestamp < now
        /\ chains[c].sourceQueue = <<>>

\* C7: a successful source response for a key whose repository file has
\* already been written leaves that file as it is.
C7_FirstResponseWins ==
  [][last'.op = "sourceResponse" /\ last'.doc # Rejected =>
       \A c \in DOMAIN chains :
          LET path == SourcePath(c, last'.address, Sanitize(last'.key))
          IN path \in DOMAIN files => files'[path] = files[path]]_vars

\* C8: an entry whose pending-sources map is empty or missing when a source
\* tick runs is not in the source queue after that tick.
C8_EmptyEntryDrained ==
  [][last'.op = "retrieveSource" =>
       \A c \in DOMAIN chains :
          \A a \in DOMAIN chains[c].sourceQueue :
             DOMAIN chains[c].sourceQueue[a].sources.map = {} =>
               a \notin DOMAIN chains'[c].sourceQueue]_vars

\* C9: once stop() has been called after start() was invoked, no tick fires.
C9_NoTickAfterStop == stoppedAfterStart => last.op \notin TickOps

\* C10: the sanitized path has only characters of [A-Za-z0-9_./-] and no
\* '/'-delimited segment made of dots alone.
DotSegment(path) ==
  \E i \in 1..Len(path), j \in 1..Len(path) :
     /\ i <= j
     /\ \A k \in i..j : path[k] = "."
     /\ i = 1 \/ path[i - 1] = "/"
     /\ j = Len(path) \/ path[j + 1] = "/"

C10_SanitizedPathSafe ==
  last.op = "sanitize" =>
    /\ \A i \in 1..Len(pathSanitized) : pathSanitized[i] \in AllowedChars
    /\ ~DotSegment(pathSanitized)

\* C11: with the chain head staying at H = CatchUpHead and a startup cursor
\* c0 <= H, after k block ticks that read the head the cursor is
\* min(H, c0 + 4k); from cursor 100 with head 1000 it is 104 after one tick,
\* 1000 after 225 ticks, and 1000 after any further tick.
C11_CatchUpCursor ==
  \A c \in DOMAIN headTicks :
     LET c0 == startCursor[c]
         k == headTicks[c]
         cursor == chains[c].latestBlock
     IN /\ c0 <= CatchUpHead => cursor = Min(CatchUpHead, c0 + 4 * k)
        /\ c0 = 100 /\ CatchUpHead = 1000 =>
              /\ k = 1 => cursor = 104
              /\ k >= 225 => cursor = 1000

\* the 225th tick has read the head and brought the cursor from the startup
\* cursor, 900 below the head, to the head
C11_Witness ==
  \E c \in DOMAIN headTicks :
     /\ startCursor[c] = CatchUpStart
     /\ CatchUpHead - CatchUpStart = 900
     /\ headTicks[c] = 225
     /\ chains[c].latestBlock = CatchUpHead
     /\ last.op = "getBlockNumber" /\ last.doc = "ok"

\* C12: a getBlockNumber callback of a block tick that is given an error
\* changes no cursor and no queue, starts no getBlock and no getCode, and
\* leaves the block timer armed, so the next tick reads the head again from
\* the same cursor.
C12_HeadFailureAbortsTick ==
  [][last'.op = "getBlockNumber" /\ last'.doc = "err" =>
       /\ chains' = chains
       /\ blockReqs' = blockReqs
       /\ codeReqs' = codeReqs
       /\ requested' = requested
       /\ "block" \in timers']_vars

\* a callback has just been given an error while the chain had blocks
\* requested earlier and the cursor above the startup cursor
C12_Witness ==
  /\ last.op = "getBlockNumber"
  /\ last.doc = "err"
  /\ \E c \in DOMAIN requested :
        /\ requested[c] # <<>>
        /\ chains[c].latestBlock > startCursor[c]

\* C17: the block numbers passed to getBlock on a chain are, in call order,
\* the consecutive numbers from the startup cursor on, each once; the
\* cursor is the next number not yet requested; and a callback whose head
\* is not above the cursor requests no block and queues nothing.
C17_RequestsConsecutive ==
  [][/\ \A c \in DOMAIN requested' :
          /\ requested'[c] =
               [i \in 1..Len(requested'[c]) |-> startCursor'[c] + i - 1]
          /\ chains'[c].latestBlock = startCursor'[c] + Len(requested'[c])
     /\ last'.op = "getBlockNumber" /\ last'.doc = "ok" =>
          \A c \in DOMAIN requested :
             last'.num <= chains[c].latestBlock =>
               /\ blockReqs' = blockReqs
               /\ codeReqs' = codeReqs
               /\ chains' = chains]_vars

\* two ticks were in flight together: five blocks have been requested from
\* startup cursor 0 by more than one callback, and a callback is pending
C17_Witness ==
  \E c \in DOMAIN requested :
     /\ startCursor[c] = 0
     /\ requested[c] = <<0, 1, 2, 3, 4>>
     /\ chains[c].latestBlock = 5
     /\ BagIn(c, headReqs)

\* C18: a getBlock callback that is given an error or no block for block n
\* leaves the cursor, which is already past n, where it is, leaves the other
\* block requests in flight, starts nothing and scans nothing; and no step
\* ever issues a getBlock for a number below the cursor, so n is not
\* requested again.
C18_FailedBlockSkipped ==
  [][/\ last'.op = "getBlock" /\ last'.doc = "err" =>
          /\ chains' = chains
          /\ \A c \in DOMAIN chains : chains[c].latestBlock > last'.num
          /\ \E c \in DOMAIN chains :
                blockReqs' = Settle(blockReqs, [chain |-> c, number |-> last'.num])
          /\ codeReqs' = codeReqs
          /\ processed' = processed
          /\ \A c \in DOMAIN processed :
                \A i \in 1..Len(processed[c]) : processed[c][i] # last'.num
     /\ \A r \in DOMAIN blockReqs' :
          r.number < chains[r.chain].latestBlock =>
            CopiesIn(r, blockReqs') <= CopiesIn(r, blockReqs)]_vars

\* block 1 has just failed while block 2 of the same range is still in
\* flight and the cursor is past both
C18_Witness ==
  /\ last.op = "getBlock"
  /\ last.doc = "err"
  /\ last.num = 1
  /\ \E c \in DOMAIN chains :
        /\ chains[c].latestBlock >= 3
        /\ BagIn([chain |-> c, number |-> 2], blockReqs)
        /\ ~BagIn([chain |-> c, number |-> 1], blockReqs)

\* C19: the blocks of a chain are scanned in increasing block-number order.
C19_ProcessedInOrder ==
  \A c \in DOMAIN processed :
     \A i \in 1..Len(processed[c]), j \in 1..Len(processed[c]) :
        i < j => processed[c][i] < processed[c][j]

\* C13: every metadata-queue entry has exactly one of the keys bzzr1 and
\* ipfs; a getCode callback whose footer has both keys queues the address
\* with bzzr1 only; and a callback given an error, a decoder exception, no
\* footer, a footer with neither key or an ipfs value that is no multihash
\* leaves the metadata queue as it was.
C13_OneHashVariant ==
  [][/\ \A c \in DOMAIN chains' :
          \A a \in DOMAIN chains'[c].metadataQueue :
             ("bzzr1" \in DOMAIN chains'[c].metadataQueue[a]) #
             ("ipfs" \in DOMAIN chains'[c].metadataQueue[a])
     /\ last'.op = "getCode" =>
          \A c \in DOMAIN chains :
             LET before == chains[c].metadataQueue
                 after == chains'[c].metadataQueue
                 a == last'.address
                 r == last'.given
             IN /\ (/\ r.kind = "map"
                     /\ DOMAIN r.map = {"bzzr1", "ipfs"}
                     /\ a \notin DOMAIN before) =>
                       /\ a \in DOMAIN after
                       /\ DOMAIN after[a] = {"bzzr1", "timestamp"}
                /\ (\/ r.kind # "map"
                     \/ (DOMAIN r.map) \cap {"bzzr1", "ipfs"} = {}
                     \/ r.map = ("ipfs" :> "bytesBad")) =>
                       after = before]_vars

\* a getCode callback was just given a footer with both keys for an address
\* that was not queued: the address is queued with the bzzr1 hash alone
C13_Witness ==
  /\ last.op = "getCode"
  /\ last.given.kind = "map"
  /\ DOMAIN last.given.map = {"bzzr1", "ipfs"}
  /\ \E c \in DOMAIN chains :
        /\ last.address \in DOMAIN chains[c].metadataQueue
        /\ chains[c].metadataQueue[last.address] =
             [bzzr1 |-> "1111", timestamp |-> now]
        /\ now > 0

\* C14: no step of an operation a tick starts ends in an exception nothing
\* catches or in a promise that rejects with no handler.
TickStartedOps ==
  {"retrieveBlocks", "getBlockNumber", "getBlock", "getCode",
   "retrieveMetadata", "metadataResponse", "retrieveSource", "sourceResponse"}

C14_NoUnhandledRejection ==
  last.op \in TickStartedOps => ~last.uncaught

\* C16: a source tick starts no gateway fetch for a pending key whose
\* keccak256 cache file exists.
C16_CachedKeyNotFetched ==
  [][last'.op = "retrieveSource" =>
       \A r \in DOMAIN sourceReqs' :
          (/\ r.address \in DOMAIN chains[r.chain].sourceQueue
           /\ r.sourceKey \in DOMAIN chains[r.chain].sourceQueue[r.address].sources.map
           /\ chains[r.chain].sourceQueue[r.address].sources.map[r.sourceKey].keccak256
                 \in last'.given) =>
             CopiesIn(r, sourceReqs') = CopiesIn(r, sourceReqs)]_vars

\* C20: a source response that resolved writes the file of its key and
\* nothing else; when the address has an entry with a pending map, exactly
\* that key leaves the map, and the address leaves the source queue in the
\* same step exactly when the map is then empty; and whenever an address
\* leaves the source queue by completion, the repository has a file for
\* every source key of the entry's manifest.
C20_SourceFoundDrains ==
  [][\A c \in DOMAIN chains :
       LET queue == chains[c].sourceQueue
           after == chains'[c].sourceQueue
           a == last'.address
           k == last'.key
           path == SourcePath(c, a, Sanitize(k))
       IN /\ last'.op = "sourceResponse" /\ last'.doc # Rejected =>
               /\ DOMAIN files' = (DOMAIN files) \cup {path}
               /\ files'[path] = last'.doc
               /\ \A p \in (DOMAIN files) \ {path} : files'[p] = files[p]
               /\ chains'[c].metadataQueue = chains[c].metadataQueue
               /\ IF a \in DOMAIN queue /\ queue[a].sources.defined
                  THEN LET left == (DOMAIN queue[a].sources.map) \ {k}
                       IN /\ (left = {}) <=> (a \notin DOMAIN after)
                          /\ left # {} =>
                                /\ DOMAIN after[a].sources.map = left
                                /\ \A j \in left :
                                      after[a].sources.map[j] = queue[a].sources.map[j]
                                /\ after[a].timestamp = queue[a].timestamp
                          /\ \A b \in (DOMAIN queue) \ {a} :
                                b \in DOMAIN after /\ after[b] = queue[b]
                  ELSE after = queue
          /\ \A b \in (DOMAIN queue) \ (DOMAIN after) :
               b \notin last'.set =>
                 \A j \in DOMAIN ParseJSON(queue[b].metadataRaw).sources.map :
                    SourcePath(c, b, Sanitize(j)) \in DOMAIN files']_vars

\* a gateway response for the first key has just completed an entry whose
\* second key an earlier tick found in the cache: the entry is gone and
\* both files are in the repository
C20_Witness ==
  /\ last.op = "sourceResponse"
  /\ last.doc = "genuine"
  /\ last.key = SourceKeyOrder[1]
  /\ \E c \in DOMAIN chains :
        /\ last.address \notin DOMAIN chains[c].sourceQueue
        /\ last.address \notin DOMAIN chains[c].metadataQueue
        /\ SourcePath(c, last.address, <<"a">>) \in DOMAIN files
        /\ SourcePath(c, last.address, <<"_">>) \in DOMAIN files
        /\ files[SourcePath(c, last.address, <<"_">>)] = CacheContent

\* C15: with the ticks firing and the wall clock advancing, an address that
\* is in a metadata queue is eventually not in it, and an address that is
\* in a source queue is eventually not in it, whatever the gateways answer
\* and even if they never answer.
InMetadataQueue(a) == \E c \in DOMAIN chains : a \in DOMAIN chains[c].metadataQueue
InSourceQueue(a) == \E c \in DOMAIN chains : a \in DOMAIN chains[c].sourceQueue

C15_EntriesEventuallyLeave ==
  \A a \in Addresses :
     /\ (InMetadataQueue(a) /\ clockSteps < MaxClockSteps) ~> ~InMetadataQueue(a)
     /\ (InSourceQueue(a) /\ clockSteps < MaxClockSteps) ~> ~InSourceQueue(a)

\* a source tick has just evicted an entry whose fetches were all rejected
\* or never answered: no file of the address was ever written
C15_Witness ==
  /\ last.op = "retrieveSource"
  /\ last.set # {}
  /\ now = LongWait
  /\ \A a \in Addresses : ~InSourceQueue(a)
  /\ \A p \in DOMAIN files : p.dir # "sources"

\* C21: a step inserts an address into the source queue of a chain only
\* when the address is a key of that chain's metadata queue before the step.
C21_PromotedFromMetadataQueue ==
  [][\A c \in DOMAIN chains :
       \A a \in (DOMAIN chains'[c].sourceQueue) \ (DOMAIN chains[c].sourceQueue) :
          a \in DOMAIN chains[c].metadataQueue]_vars

====
